---- MODULE Spec2Model ----
(***************************************************************************)
(* Detection decoding and non-maximum suppression of Rkm1999/pet_detector. *)
(*                                                                         *)
(* Three revisions of the pipeline live in the repository:                 *)
(*   app.js                 processAndDraw / transpose / iou / nms         *)
(*   script.js lines 1-283  postprocessResults / nonMaxSuppression         *)
(*                          (class-scoped) / intersectionOverUnion         *)
(*   script.js lines 286-567 postprocessResults / nonMaxSuppression        *)
(*                          (global), written here with the suffix 2       *)
(*                                                                         *)
(* Numbers.  Scores and thresholds are held in hundredths (0.5 is 50,      *)
(* 0.95 is 95).  A quotient a / b of the code is held as the record        *)
(* [num |-> a, den |-> b] and compared by cross-multiplication, with the   *)
(* IEEE-754 outcomes of a zero divisor (NaN, +-Infinity) kept.  Decoded    *)
(* coordinates are held in quarter pixels: the canvas sizes of the model   *)
(* are multiples of modelWidth / 2, so that                                *)
(* (x_center - width / 2) * (canvas.width / modelWidth) is a whole number  *)
(* of quarter pixels, computed exactly here as in double arithmetic.       *)
(***************************************************************************)
EXTENDS Integers, Sequences, FiniteSets, TLC

VARIABLES
    \* ---- the suppressor called on a candidate array
    variant,      \* which revision's suppressor is called: "app", "scoped", "global"
                  \* (and so which revision's detection loop runs)
    iouThreshold, \* the iouThreshold argument, in hundredths
    boxes,        \* the caller's candidate array (the functions sort / empty it in place)
    input,        \* the candidate array as it was passed in
    selected,     \* selectedBoxes, the value returned by the latest call
    first,        \* the value returned by the first call
    spc,          \* "input", "once" (suppressed), "twice" (its output suppressed again);
                  \* in the loop taken step by step "call", "loop", "returned";
                  \* "off" when the decoder is exercised
    \* ---- the decoder called on an output tensor
    tensor,       \* outputTensor: [data, dims]
    content,      \* the logical per-candidate rows the tensor presents
    layout,       \* how the tensor presents them: "CN" = [1, C, N], "NC" = [1, N, C]
    canvas,       \* <<canvas.width, canvas.height>> (= the video's size)
    prompts,      \* script.js global: the prompt names
    decoder,      \* which revision decoded: "none" (not yet), "app", "script", "script2";
                  \* "off" when only the suppressor is exercised
    rows,         \* transposedData / the per-detection slices the decoder read
    cands,        \* boxes: the decoder's candidates, before suppression
    dets,         \* the detection list handed to drawing
    outcome,      \* "none", "ok" (a list was returned), "TypeError" (the call threw)
    \* ---- the suppressor's loop taken one iteration at a time
    iterations,   \* how many times the body of the while loop has run
    \* ---- the decoder called a second time on the same tensor
    args,         \* the width and height arguments of the first call (app.js), <<>> if none
    second,       \* Undefined, or Some(the detection list of the second call)
    \* ---- the detection loop (detectFrame / runDetection)
    loop,         \* "off"; "scheduled" (requestAnimationFrame pending), "running" (the
                  \* callback entered), "awaiting" (session.run pending), "returned"
                  \* (detectFrame returned on a paused video), "rejected" (the callback's
                  \* promise rejected), "stopped" (no further cycle scheduled)
    session,      \* whether the global session holds a loaded model
    paused,       \* video.paused || video.ended
    \* ---- start-up and the UI events that start detection loops
    load,         \* loadModel: "idle" (not yet called), "pending", "loaded", "failed";
                  \* "off" when start-up is not exercised
    clicks,       \* how many clicks of the start button have been handled
    cameras,      \* how many getUserMedia promises are pending
    metadata,     \* how many loadedmetadata events are due (one per source set)
    chains        \* one entry per call of detectFrame() / runDetection() from outside
                  \* the loop: where that chain of cycles is ("running", "awaiting",
                  \* "scheduled", "returned")

svars == <<variant, iouThreshold, boxes, input, selected, first, spc>>
dvars == <<tensor, content, layout, canvas, prompts, decoder, rows, cands, dets, outcome>>
evars == <<args, second>>
pvars == <<loop, session, paused>>
xvars == <<iterations, args, second, loop, session, paused>>
uvars == <<load, clicks, cameras, metadata, chains>>
vars == <<variant, iouThreshold, boxes, input, selected, first, spc,
          tensor, content, layout, canvas, prompts, decoder, rows, cands, dets, outcome,
          iterations, args, second, loop, session, paused,
          load, clicks, cameras, metadata, chains>>

----------------------------------------------------------------------------
(* Bounds and program constants *)

MaxCands == 3

modelWidth == 640
modelHeight == 640
confidenceThreshold == 50
nmsThresholdApp == 45
nmsThresholdScript == 50

Max(a, b) == IF a >= b THEN a ELSE b
Min(a, b) == IF a <= b THEN a ELSE b

SeqsUpTo(S, n) == UNION {[1..k -> S] : k \in 0..n}

RemoveAt(s, i) == [k \in 1..(Len(s) - 1) |-> IF k < i THEN s[k] ELSE s[k + 1]]

----------------------------------------------------------------------------
(* Quotients.  q = [num, den] stands for the double num / den. *)

\* q > t / 100, false for NaN (0 / 0)
QuotGt(q, t) ==
    IF q.den > 0 THEN 100 * q.num > t * q.den
    ELSE IF q.den < 0 THEN 100 * q.num < t * q.den
    ELSE q.num > 0

\* q < t / 100, false for NaN (0 / 0)
QuotLt(q, t) ==
    IF q.den > 0 THEN 100 * q.num < t * q.den
    ELSE IF q.den < 0 THEN 100 * q.num > t * q.den
    ELSE q.num < 0

\* q >= t / 100, false for NaN
QuotGe(q, t) ==
    IF q.den > 0 THEN 100 * q.num >= t * q.den
    ELSE IF q.den < 0 THEN 100 * q.num <= t * q.den
    ELSE q.num > 0

----------------------------------------------------------------------------
(* Intersection over union *)

\* script.js intersectionOverUnion: box = [x, y, width, height]
intersectionOverUnion(box1, box2) ==
    LET x1 == box1.box[1]  y1 == box1.box[2]  w1 == box1.box[3]  h1 == box1.box[4]
        x2 == box2.box[1]  y2 == box2.box[2]  w2 == box2.box[3]  h2 == box2.box[4]
        interX1 == Max(x1, x2)
        interY1 == Max(y1, y2)
        interX2 == Min(x1 + w1, x2 + w2)
        interY2 == Min(y1 + h1, y2 + h2)
        interArea == Max(0, interX2 - interX1) * Max(0, interY2 - interY1)
        box1Area == w1 * h1
        box2Area == w2 * h2
        unionArea == box1Area + box2Area - interArea
    IN [num |-> interArea, den |-> unionArea]

\* app.js iou: box = {x1, y1, x2, y2}
iou(box1, box2) ==
    LET x1 == Max(box1.x1, box2.x1)
        y1 == Max(box1.y1, box2.y1)
        x2 == Min(box1.x2, box2.x2)
        y2 == Min(box1.y2, box2.y2)
        intersection == Max(0, x2 - x1) * Max(0, y2 - y1)
        area1 == (box1.x2 - box1.x1) * (box1.y2 - box1.y1)
        area2 == (box2.x2 - box2.x1) * (box2.y2 - box2.y1)
        union == area1 + area2 - intersection
    IN [num |-> intersection, den |-> union]

----------------------------------------------------------------------------
(* Array.prototype.sort((a, b) => b.score - a.score): stable, descending *)

\* the insertion placing a box before the boxes of equal score
RECURSIVE InsertBeforeTies(_, _)
InsertBeforeTies(sorted, b) ==
    IF sorted = <<>> THEN <<b>>
    ELSE IF Head(sorted).score > b.score
         THEN <<Head(sorted)>> \o InsertBeforeTies(Tail(sorted), b)
         ELSE <<b>> \o sorted

RECURSIVE InsertByScore(_, _)
InsertByScore(sorted, b) ==
    IF sorted = <<>> THEN <<b>>
    ELSE IF Head(sorted).score >= b.score
         THEN <<Head(sorted)>> \o InsertByScore(Tail(sorted), b)
         ELSE <<b>> \o sorted

RECURSIVE InsertByScoreAscending(_, _)
InsertByScoreAscending(sorted, b) ==
    IF sorted = <<>> THEN <<b>>
    ELSE IF Head(sorted).score <= b.score
         THEN <<Head(sorted)>> \o InsertByScoreAscending(Tail(sorted), b)
         ELSE <<b>> \o sorted

RECURSIVE SortAscending(_)
SortAscending(arr) ==
    IF arr = <<>> THEN <<>>
    ELSE InsertByScoreAscending(SortAscending(SubSeq(arr, 1, Len(arr) - 1)), arr[Len(arr)])

RECURSIVE SortByScoreDesc(_)
SortByScoreDesc(arr) ==
    IF arr = <<>> THEN <<>>
    ELSE InsertByScore(SortByScoreDesc(SubSeq(arr, 1, Len(arr) - 1)), arr[Len(arr)])

----------------------------------------------------------------------------
(* app.js nms *)

\* boxes.slice(1).filter(box => iou(boxes[0], box) < iouThreshold)
nmsFilter(arr, thr) ==
    SelectSeq(Tail(arr), LAMBDA box : QuotLt(iou(arr[1], box), thr))

RECURSIVE nmsLoop(_, _, _)
nmsLoop(arr, selectedBoxes, thr) ==
    IF Len(arr) > 0
    THEN nmsLoop(nmsFilter(arr, thr), Append(selectedBoxes, arr[1]), thr)
    ELSE selectedBoxes

nms(arr, thr) ==
    IF Len(arr) = 0 THEN <<>> ELSE nmsLoop(SortByScoreDesc(arr), <<>>, thr)

----------------------------------------------------------------------------
(* script.js nonMaxSuppression, both revisions *)

\* a forward loop over the array being spliced: the element after a removed
\* one moves into the index just visited and is skipped
RECURSIVE spliceForwardFrom(_, _, _, _, _)
spliceForwardFrom(currentBox, sortedBoxes, i, thr, scoped) ==
    IF i > Len(sortedBoxes) THEN sortedBoxes
    ELSE IF scoped /\ sortedBoxes[i].label # currentBox.label
    THEN spliceForwardFrom(currentBox, sortedBoxes, i + 1, thr, scoped)
    ELSE IF QuotGt(intersectionOverUnion(currentBox, sortedBoxes[i]), thr)
    THEN spliceForwardFrom(currentBox, RemoveAt(sortedBoxes, i), i + 1, thr, scoped)
    ELSE spliceForwardFrom(currentBox, sortedBoxes, i + 1, thr, scoped)

spliceForward(currentBox, sortedBoxes, i, thr, scoped) ==
    spliceForwardFrom(currentBox, sortedBoxes, 1, thr, scoped)

\* the same loop with the label test left out
RECURSIVE spliceUnscoped(_, _, _, _, _)
spliceUnscoped(currentBox, sortedBoxes, i, thr, scoped) ==
    IF i < 1 THEN sortedBoxes
    ELSE IF QuotGt(intersectionOverUnion(currentBox, sortedBoxes[i]), thr)
    THEN spliceUnscoped(currentBox, RemoveAt(sortedBoxes, i), i - 1, thr, scoped)
    ELSE spliceUnscoped(currentBox, sortedBoxes, i - 1, thr, scoped)

\* the same loop decaying the score of an overlapping box (to half) in place
\* of removing it
RECURSIVE spliceDecay(_, _, _, _, _)
spliceDecay(currentBox, sortedBoxes, i, thr, scoped) ==
    IF i < 1 THEN sortedBoxes
    ELSE IF scoped /\ sortedBoxes[i].label # currentBox.label
    THEN spliceDecay(currentBox, sortedBoxes, i - 1, thr, scoped)
    ELSE IF QuotGt(intersectionOverUnion(currentBox, sortedBoxes[i]), thr)
    THEN spliceDecay(currentBox,
                     [sortedBoxes EXCEPT ![i].score = sortedBoxes[i].score \div 2],
                     i - 1, thr, scoped)
    ELSE spliceDecay(currentBox, sortedBoxes, i - 1, thr, scoped)

\* for (let i = sortedBoxes.length - 1; i >= 0; i--) { ... splice(i, 1) }
\* i is the 1-based index; scoped is TRUE for the revision with the label test
RECURSIVE spliceLoop(_, _, _, _, _)
spliceLoop(currentBox, sortedBoxes, i, thr, scoped) ==
    IF i < 1 THEN sortedBoxes
    ELSE IF scoped /\ sortedBoxes[i].label # currentBox.label
    THEN spliceLoop(currentBox, sortedBoxes, i - 1, thr, scoped)
    ELSE IF QuotGt(intersectionOverUnion(currentBox, sortedBoxes[i]), thr)
    THEN spliceLoop(currentBox, RemoveAt(sortedBoxes, i), i - 1, thr, scoped)
    ELSE spliceLoop(currentBox, sortedBoxes, i - 1, thr, scoped)

RECURSIVE suppressLoop(_, _, _, _)
suppressLoop(sortedBoxes, selectedBoxes, thr, scoped) ==
    IF Len(sortedBoxes) > 0
    THEN LET currentBox == Head(sortedBoxes)
             shifted == Tail(sortedBoxes)
         IN suppressLoop(spliceLoop(currentBox, shifted, Len(shifted), thr, scoped),
                         Append(selectedBoxes, currentBox), thr, scoped)
    ELSE selectedBoxes

\* script.js lines 228-246: compares only boxes of the same label
nonMaxSuppression(arr, thr) == suppressLoop(SortByScoreDesc(arr), <<>>, thr, TRUE)

\* script.js lines 513-530: compares all boxes
nonMaxSuppression2(arr, thr) == suppressLoop(SortByScoreDesc(arr), <<>>, thr, FALSE)

----------------------------------------------------------------------------
(* The decoders *)

\* a value that may be undefined: <<>> is undefined, <<n>> is the number n
Undefined == <<>>
Some(n) == <<n>>

\* dims[k], k counted from 0 as in the code
Dim(dims, k) == IF k + 1 <= Len(dims) THEN Some(dims[k + 1]) ELSE Undefined

\* an array element that is undefined, and one that is a row
Hole == [hole |-> TRUE]
RowOf(v) == [vals |-> v]
IsHole(e) == "hole" \in DOMAIN e

\* script.js classNames (80 COCO names)
classNames == <<
    "person", "bicycle", "car", "motorcycle", "airplane", "bus", "train", "truck", "boat", "traffic light",
    "fire hydrant", "stop sign", "parking meter", "bench", "bird", "cat", "dog", "horse", "sheep", "cow",
    "elephant", "bear", "zebra", "giraffe", "backpack", "umbrella", "handbag", "tie", "suitcase", "frisbee",
    "skis", "snowboard", "sports ball", "kite", "baseball bat", "baseball glove", "skateboard", "surfboard",
    "tennis racket", "bottle", "wine glass", "cup", "fork", "knife", "spoon", "bowl", "banana", "apple",
    "sandwich", "orange", "broccoli", "carrot", "hot dog", "pizza", "donut", "cake", "chair", "couch",
    "potted plant", "bed", "dining table", "toilet", "tv", "laptop", "mouse", "remote", "keyboard", "cell phone",
    "microwave", "oven", "toaster", "sink", "refrigerator", "book", "clock", "vase", "scissors", "teddy bear",
    "hair drier", "toothbrush" >>

\* const numClasses = classNames.length
numClasses == Len(classNames)

\* the acceptance test with >= in place of >
atOrAboveThreshold(score) == score >= confidenceThreshold

\* the acceptance test against 0, the starting value of maxProb, in place of
\* the threshold
aboveZero(score) == score > 0

\* if (maxProb > 0.5), if (maxScore > confidenceThreshold),
\* if (confidence > confidenceThreshold)
aboveThreshold(score) == score > confidenceThreshold

\* let maxProb = 0; let classId = -1;
\* for (j ...) if (classProbs[j] > maxProb) { maxProb = classProbs[j]; classId = j; }
\* j is 1-based here, classId 0-based as in the code
RECURSIVE bestClassFrom(_, _, _, _)
bestClassFrom(classProbs, j, maxProb, classId) ==
    IF j > Len(classProbs) THEN [maxProb |-> maxProb, classId |-> classId]
    ELSE IF classProbs[j] > maxProb
    THEN bestClassFrom(classProbs, j + 1, classProbs[j], j - 1)
    ELSE bestClassFrom(classProbs, j + 1, maxProb, classId)

bestClass(classProbs) == bestClassFrom(classProbs, 1, 0, -1)

\* ---- app.js

\* the transpose with the two index roles exchanged
transposeSwapped(data, C, N) ==
    IF N = Undefined THEN <<Hole>>
    ELSE [i \in 1..N[1] |->
            RowOf(IF C = Undefined THEN <<>>
                  ELSE [j \in 1..C[1] |-> data[(i - 1) * C[1] + (j - 1) + 1]])]

\* the transpose with an undefined N giving the empty array
transposeNoHole(data, C, N) ==
    IF N = Undefined THEN <<>>
    ELSE [i \in 1..N[1] |->
            RowOf(IF C = Undefined THEN <<>>
                  ELSE [j \in 1..C[1] |-> data[(j - 1) * N[1] + (i - 1) + 1]])]

\* transpose(data, C, N): new Array(N) holds N rows, each new Float32Array(C)
\* with transposed[i][j] = data[j * N + i].  new Array(undefined) is the
\* one-element array [undefined], whose loop never runs; new
\* Float32Array(undefined) is empty.
transpose(data, C, N) ==
    IF N = Undefined THEN <<Hole>>
    ELSE [i \in 1..N[1] |->
            RowOf(IF C = Undefined THEN <<>>
                  ELSE [j \in 1..C[1] |-> data[(j - 1) * N[1] + (i - 1) + 1]])]

\* the class probabilities read from index 5 on
classProbsFrom5(detection) == SubSeq(detection, 6, Len(detection))

\* const [x_center, y_center, width, height, ...classProbs] = detection
classProbs(detection) == SubSeq(detection, 5, Len(detection))

\* twice the scale factor originalWidth / modelWidth (canvas.width / modelWidth),
\* a whole number for the canvas sizes of the model
TwiceScaleX(width) == (2 * width) \div modelWidth
TwiceScaleY(height) == (2 * height) \div modelHeight

\* the box taken as top-left form: no half-size subtracted or added
appBoxTopLeft(detection, originalWidth, originalHeight) ==
    [x1 |-> 2 * detection[1] * TwiceScaleX(originalWidth),
     y1 |-> 2 * detection[2] * TwiceScaleY(originalHeight),
     x2 |-> 2 * (detection[1] + detection[3]) * TwiceScaleX(originalWidth),
     y2 |-> 2 * (detection[2] + detection[4]) * TwiceScaleY(originalHeight)]

\* x1 = (x_center - width / 2) * scaleX, ... with scaleX = originalWidth / modelWidth;
\* in quarter pixels: 4 * x1 = (2 * x_center - width) * (2 * scaleX)
appBox(detection, originalWidth, originalHeight) ==
    [x1 |-> (2 * detection[1] - detection[3]) * TwiceScaleX(originalWidth),
     y1 |-> (2 * detection[2] - detection[4]) * TwiceScaleY(originalHeight),
     x2 |-> (2 * detection[1] + detection[3]) * TwiceScaleX(originalWidth),
     y2 |-> (2 * detection[2] + detection[4]) * TwiceScaleY(originalHeight)]

\* the loop over transposedData (lines 152-182); ref is the candidate's index i
RECURSIVE appLoop(_, _, _, _, _)
appLoop(transposedData, i, acc, originalWidth, originalHeight) ==
    IF i > Len(transposedData) THEN acc
    ELSE LET detection == transposedData[i].vals
             best == bestClass(classProbs(detection))
         IN IF aboveThreshold(best.maxProb)
            THEN LET b == appBox(detection, originalWidth, originalHeight)
                 IN appLoop(transposedData, i + 1,
                            Append(acc, [ref |-> i, x1 |-> b.x1, y1 |-> b.y1,
                                         x2 |-> b.x2, y2 |-> b.y2,
                                         score |-> best.maxProb, classId |-> best.classId]),
                            originalWidth, originalHeight)
            ELSE appLoop(transposedData, i + 1, acc, originalWidth, originalHeight)

\* processAndDraw(outputTensor, originalWidth, originalHeight): destructuring
\* an undefined element of transposedData throws a TypeError
processAndDraw(outputTensor, originalWidth, originalHeight) ==
    LET transposedData == transpose(outputTensor.data, Dim(outputTensor.dims, 1),
                                    Dim(outputTensor.dims, 2))
    IN IF \E i \in DOMAIN transposedData : IsHole(transposedData[i])
       THEN [outcome |-> "TypeError", rows |-> <<>>, boxes |-> <<>>, result |-> <<>>]
       ELSE LET bs == appLoop(transposedData, 1, <<>>, originalWidth, originalHeight)
            IN [outcome |-> "ok",
                rows |-> [i \in DOMAIN transposedData |-> transposedData[i].vals],
                boxes |-> bs,
                result |-> nms(bs, nmsThresholdApp)]

\* ---- script.js, lines 151-199

\* the rows read as detection-major slices of the buffer
transposeLoopSliced(originalData, numDetections, detectionSize) ==
    IF numDetections = Undefined THEN <<>>
    ELSE [i \in 1..numDetections[1] |->
            IF detectionSize = Undefined THEN <<>>
            ELSE [j \in 1..detectionSize[1] |->
                    originalData[(i - 1) * detectionSize[1] + (j - 1) + 1]]]

\* for (i < numDetections) for (j < detectionSize)
\*     detection.push(originalData[j * numDetections + i])
\* a comparison with undefined is false, so an undefined bound runs no iteration
transposeLoop(originalData, numDetections, detectionSize) ==
    IF numDetections = Undefined THEN <<>>
    ELSE [i \in 1..numDetections[1] |->
            IF detectionSize = Undefined THEN <<>>
            ELSE [j \in 1..detectionSize[1] |->
                    originalData[(j - 1) * numDetections[1] + (i - 1) + 1]]]

\* detection.slice(4, 4 + numClasses)
classScores(detection) == SubSeq(detection, 5, Min(Len(detection), 4 + numClasses))

\* the box taken as top-left form: x = x_center * scale
scriptBoxTopLeft(detection, canvasWidth, canvasHeight) ==
    << 2 * detection[1] * TwiceScaleX(canvasWidth),
       2 * detection[2] * TwiceScaleY(canvasHeight),
       2 * detection[3] * TwiceScaleX(canvasWidth),
       2 * detection[4] * TwiceScaleY(canvasHeight) >>

\* box: [(x_center - width / 2) * (canvas.width / modelWidth), ...,
\*       width * (canvas.width / modelWidth), height * (canvas.height / modelHeight)]
\* in quarter pixels
scriptBox(detection, canvasWidth, canvasHeight) ==
    << (2 * detection[1] - detection[3]) * TwiceScaleX(canvasWidth),
       (2 * detection[2] - detection[4]) * TwiceScaleY(canvasHeight),
       2 * detection[3] * TwiceScaleX(canvasWidth),
       2 * detection[4] * TwiceScaleY(canvasHeight) >>

RECURSIVE scriptLoop(_, _, _, _, _)
scriptLoop(transposedData, i, acc, canvasWidth, canvasHeight) ==
    IF i > Len(transposedData) THEN acc
    ELSE LET detection == transposedData[i]
             best == bestClass(classScores(detection))
         IN IF aboveThreshold(best.maxProb)
            THEN scriptLoop(transposedData, i + 1,
                            Append(acc, [ref |-> i,
                                         box |-> scriptBox(detection, canvasWidth, canvasHeight),
                                         label |-> classNames[best.classId + 1],
                                         score |-> best.maxProb]),
                            canvasWidth, canvasHeight)
            ELSE scriptLoop(transposedData, i + 1, acc, canvasWidth, canvasHeight)

postprocessResults(outputTensor, canvasWidth, canvasHeight) ==
    LET numDetections == Dim(outputTensor.dims, 2)
        detectionSize == Dim(outputTensor.dims, 1)
        transposedData == transposeLoop(outputTensor.data, numDetections, detectionSize)
        bs == scriptLoop(transposedData, 1, <<>>, canvasWidth, canvasHeight)
    IN [outcome |-> "ok", rows |-> transposedData, boxes |-> bs,
        result |-> nonMaxSuppression(bs, nmsThresholdScript)]

\* ---- script.js, lines 465-508

\* `Object ${bestClassIndex}`
ObjectLabel(bestClassIndex) == "Object " \o ToString(bestClassIndex)

\* the lookup without the fallback: prompts[bestClassIndex]?.name, shown as
\* "undefined" when there is no such prompt
promptName(names, bestClassIndex) ==
    IF bestClassIndex + 1 \in DOMAIN names
    THEN names[bestClassIndex + 1]
    ELSE "undefined"

\* prompts[bestClassIndex]?.name || `Object ${bestClassIndex}`
promptLabel(names, bestClassIndex) ==
    IF bestClassIndex + 1 \in DOMAIN names /\ names[bestClassIndex + 1] # ""
    THEN names[bestClassIndex + 1]
    ELSE ObjectLabel(bestClassIndex)

\* data.slice(i * detectionSize, (i + 1) * detectionSize) for i < numDetections;
\* slice clips to the buffer, and slice(NaN, NaN) is empty
sliceRows(data, numDetections, detectionSize) ==
    IF numDetections = Undefined THEN <<>>
    ELSE [i \in 1..numDetections[1] |->
            IF detectionSize = Undefined THEN <<>>
            ELSE SubSeq(data, Min((i - 1) * detectionSize[1], Len(data)) + 1,
                        Min(i * detectionSize[1], Len(data)))]

\* detection.slice(5)
classScores2(detection) == SubSeq(detection, 6, Len(detection))

\* detection[4] read from a row too short to hold it is undefined, and
\* undefined > confidenceThreshold is false
RECURSIVE script2Loop(_, _, _, _, _, _)
script2Loop(slices, i, acc, names, canvasWidth, canvasHeight) ==
    IF i > Len(slices) THEN acc
    ELSE LET detection == slices[i]
         IN IF Len(detection) >= 5 /\ aboveThreshold(detection[5])
            THEN LET best == bestClass(classScores2(detection))
                 IN IF best.classId # -1
                    THEN script2Loop(slices, i + 1,
                            Append(acc, [ref |-> i,
                                         box |-> scriptBox(detection, canvasWidth, canvasHeight),
                                         label |-> promptLabel(names, best.classId),
                                         score |-> detection[5]]),
                            names, canvasWidth, canvasHeight)
                    ELSE script2Loop(slices, i + 1, acc, names, canvasWidth, canvasHeight)
            ELSE script2Loop(slices, i + 1, acc, names, canvasWidth, canvasHeight)

postprocessResults2(outputTensor, names, canvasWidth, canvasHeight) ==
    LET numDetections == Dim(outputTensor.dims, 1)
        detectionSize == Dim(outputTensor.dims, 2)
        slices == sliceRows(outputTensor.data, numDetections, detectionSize)
        bs == script2Loop(slices, 1, <<>>, names, canvasWidth, canvasHeight)
    IN [outcome |-> "ok", rows |-> slices, boxes |-> bs,
        result |-> nonMaxSuppression2(bs, nmsThresholdScript)]

----------------------------------------------------------------------------
(* Candidate arrays handed to the suppressor *)

\* [x, y, width, height]; A-B overlap 9/20, A-C overlap 1/2, B-C overlap 3/16,
\* Z has no area
Geometries == { <<1, 1, 4, 5>>, <<1, 1, 3, 3>>, <<3, 1, 2, 5>>, <<2, 2, 0, 2>> }
Scores == {80, 90}
Labels == {"cat", "dog"}
ClassIds == {0, 1}
Thresholds == {nmsThresholdApp, nmsThresholdScript}
Variants == {"app", "scoped", "global"}

\* the value of one candidate, without its identity
ScriptValues == [box : Geometries, label : Labels, score : Scores]
AppValues ==
    { [x1 |-> g[1], y1 |-> g[2], x2 |-> g[1] + g[3], y2 |-> g[2] + g[4],
       score |-> s, classId |-> c] : g \in Geometries, s \in Scores, c \in ClassIds }

\* ref is the identity of the object: its index in the array as passed in
WithRef(v, i) ==
    IF "box" \in DOMAIN v
    THEN [ref |-> i, box |-> v.box, label |-> v.label, score |-> v.score]
    ELSE [ref |-> i, x1 |-> v.x1, y1 |-> v.y1, x2 |-> v.x2, y2 |-> v.y2,
          score |-> v.score, classId |-> v.classId]

CandidateArrays(v) ==
    LET values == IF v = "app" THEN AppValues ELSE ScriptValues
    IN { [i \in DOMAIN a |-> WithRef(a[i], i)] : a \in SeqsUpTo(values, MaxCands) }

Suppress(v, arr, thr) ==
    CASE v = "app" -> nms(arr, thr)
      [] v = "scoped" -> nonMaxSuppression(arr, thr)
      [] v = "global" -> nonMaxSuppression2(arr, thr)

\* the label the variant compares, for a candidate of either shape
LabelOf(b) == IF "label" \in DOMAIN b THEN b.label ELSE b.classId

\* the overlap quotient the variant computes
Overlap(v, a, b) == IF v = "app" THEN iou(a, b) ELSE intersectionOverUnion(a, b)

\* a detection's area (both shapes)
AreaOf(b) ==
    IF "box" \in DOMAIN b THEN b.box[3] * b.box[4]
    ELSE (b.x2 - b.x1) * (b.y2 - b.y1)

NoTensor == [data |-> <<>>, dims |-> <<>>]

SuppressInit ==
    /\ variant \in Variants
    /\ iouThreshold \in Thresholds
    /\ boxes \in CandidateArrays(variant)
    /\ input = boxes
    /\ selected = <<>>
    /\ first = <<>>
    /\ spc = "input"
    /\ tensor = NoTensor /\ content = <<>> /\ layout = "CN" /\ canvas = <<0, 0>>
    /\ prompts = <<>> /\ decoder = "off" /\ rows = <<>> /\ cands = <<>>
    /\ dets = <<>> /\ outcome = "none"
    /\ iterations = 0
    /\ args = <<>> /\ second = <<>>
    /\ loop = "off" /\ session = FALSE /\ paused = FALSE
    /\ load = "off" /\ clicks = 0 /\ cameras = 0 /\ metadata = 0 /\ chains = <<>>

\* app.js: finalBoxes = nms(boxes, thr).  boxes.sort sorts the caller's array
\* in place; the loop then rebinds the parameter to fresh arrays.
CallNms ==
    /\ spc = "input" /\ variant = "app"
    /\ selected' = nms(boxes, iouThreshold)
    /\ first' = selected'
    /\ boxes' = SortByScoreDesc(boxes)
    /\ spc' = "once"
    /\ UNCHANGED <<variant, iouThreshold, input>>
    /\ UNCHANGED dvars
    /\ UNCHANGED xvars
    /\ UNCHANGED uvars

\* script.js lines 228-246: sortedBoxes is the caller's array itself, which
\* shift and splice empty
CallNonMaxSuppression ==
    /\ spc = "input" /\ variant = "scoped"
    /\ selected' = nonMaxSuppression(boxes, iouThreshold)
    /\ first' = selected'
    /\ boxes' = <<>>
    /\ spc' = "once"
    /\ UNCHANGED <<variant, iouThreshold, input>>
    /\ UNCHANGED dvars
    /\ UNCHANGED xvars
    /\ UNCHANGED uvars

\* script.js lines 513-530
CallNonMaxSuppression2 ==
    /\ spc = "input" /\ variant = "global"
    /\ selected' = nonMaxSuppression2(boxes, iouThreshold)
    /\ first' = selected'
    /\ boxes' = <<>>
    /\ spc' = "once"
    /\ UNCHANGED <<variant, iouThreshold, input>>
    /\ UNCHANGED dvars
    /\ UNCHANGED xvars
    /\ UNCHANGED uvars

\* the suppressor called again on a copy of what it returned
SuppressAgain ==
    /\ spc = "once"
    /\ selected' = Suppress(variant, selected, iouThreshold)
    /\ spc' = "twice"
    /\ UNCHANGED <<variant, iouThreshold, boxes, input, first>>
    /\ UNCHANGED dvars
    /\ UNCHANGED xvars
    /\ UNCHANGED uvars

SuppressNext ==
    \/ CallNms
    \/ CallNonMaxSuppression
    \/ CallNonMaxSuppression2
    \/ SuppressAgain

SpecSuppress == SuppressInit /\ [][SuppressNext]_vars

----------------------------------------------------------------------------
(* Output tensors handed to the decoder *)

MaxRows == 2

\* [x_center, y_center, width, height] in model pixels; the two overlap by 2/3
BoxValues == { <<100, 100, 50, 50>>, <<110, 100, 50, 50>> }
\* class scores in hundredths: none, exactly the threshold, well above it
ScoreValues == {0, 50, 95}
\* C, the per-candidate length: 4 + K class scores, and one too short for a box
ChannelCounts == {3, 4, 5, 6}
\* <<canvas.width, canvas.height>>, multiples of modelWidth / 2 and modelHeight / 2
Canvases == { <<640, 640>>, <<1280, 320>> }

RowsOf(C) ==
    IF C < 4 THEN { SubSeq(b, 1, C) : b \in BoxValues }
    ELSE { b \o sc : b \in BoxValues, sc \in [1..(C - 4) -> ScoreValues] }

Contents ==
    UNION { { [channels |-> C, rows |-> r] : r \in SeqsUpTo(RowsOf(C), MaxRows) }
            : C \in ChannelCounts }

\* the tensors of shape [1, 6, 4]: four candidates with disjoint boxes, channel 4
\* the score (0.95 for exactly one, 0 or 0.3 for the others), channel 5 a class
\* value (0 or 1.0)
ContentsShape164 ==
    { [channels |-> 6,
       rows |-> [i \in 1..4 |-> <<100 * i, 100, 50, 50, sc[i], cl[i]>>]]
      : sc \in { f \in [1..4 -> {0, 30, 95}] : Cardinality({i \in 1..4 : f[i] = 95}) = 1 },
        cl \in [1..4 -> {0, 100}] }

\* the tensors of one candidate with three class scores (C = 7), alone or
\* followed by a second candidate
ContentsThreeScores ==
    { [channels |-> 7, rows |-> << <<100, 100, 50, 50>> \o sc >> \o more]
      : sc \in [1..3 -> ScoreValues],
        more \in { <<>>, << <<300, 100, 50, 50, 95, 95, 0>> >> } }

\* the flat buffer presenting the rows channel-major ("CN": data[j * N + i])
\* or detection-major ("NC": data[i * C + j])
Present(c, l) ==
    LET C == c.channels
        N == Len(c.rows)
    IN IF l = "CN"
       THEN [k \in 1..(C * N) |-> c.rows[((k - 1) % N) + 1][((k - 1) \div N) + 1]]
       ELSE [k \in 1..(C * N) |-> c.rows[((k - 1) \div C) + 1][((k - 1) % C) + 1]]

FullDims(c, l) ==
    IF l = "CN" THEN <<1, c.channels, Len(c.rows)>> ELSE <<1, Len(c.rows), c.channels>>

OtherLayout(l) == IF l = "CN" THEN "NC" ELSE "CN"

DecodeInit ==
    /\ content \in Contents \cup ContentsShape164 \cup ContentsThreeScores
    /\ layout \in {"CN", "NC"}
    /\ \E k \in 1..3 :
          tensor = [data |-> Present(content, layout),
                    dims |-> SubSeq(FullDims(content, layout), 1, k)]
    /\ canvas \in Canvases
    /\ prompts = <<"Pet #1">>
    /\ decoder = "none" /\ rows = <<>> /\ cands = <<>> /\ dets = <<>>
    /\ outcome = "none"
    /\ variant = "app" /\ iouThreshold = nmsThresholdApp /\ boxes = <<>>
    /\ input = <<>> /\ selected = <<>> /\ first = <<>> /\ spc = "off"
    /\ iterations = 0
    /\ args = <<>> /\ second = <<>>
    /\ loop = "off" /\ session = FALSE /\ paused = FALSE
    /\ load = "off" /\ clicks = 0 /\ cameras = 0 /\ metadata = 0 /\ chains = <<>>

Record(dec, r) ==
    /\ decoder' = dec
    /\ rows' = r.rows
    /\ cands' = r.boxes
    /\ dets' = r.result
    /\ outcome' = r.outcome
    /\ UNCHANGED <<tensor, content, layout, canvas, prompts>>
    /\ UNCHANGED svars
    /\ UNCHANGED <<iterations, second>>
    /\ UNCHANGED pvars
    /\ UNCHANGED uvars

\* app.js: processAndDraw(outputTensor, video.videoWidth, video.videoHeight)
ProcessAndDraw ==
    /\ decoder = "none"
    /\ Record("app", processAndDraw(tensor, canvas[1], canvas[2]))
    /\ args' = <<canvas[1], canvas[2]>>

\* script.js line 118: postprocessResults(results.output0)
PostprocessResults ==
    /\ decoder = "none"
    /\ Record("script", postprocessResults(tensor, canvas[1], canvas[2]))
    /\ args' = <<>>

\* script.js line 393: postprocessResults(results.output0)
PostprocessResults2 ==
    /\ decoder = "none"
    /\ Record("script2", postprocessResults2(tensor, prompts, canvas[1], canvas[2]))
    /\ args' = <<>>

DecodeNext ==
    \/ ProcessAndDraw
    \/ PostprocessResults
    \/ PostprocessResults2

SpecDecode == DecodeInit /\ [][DecodeNext]_vars

----------------------------------------------------------------------------
(* The suppressor's while loop, one iteration per step *)

MaxLoopCands == 3

\* a box with area and a box without
LoopGeometries == { <<1, 1, 4, 5>>, <<2, 2, 0, 2>> }

\* the candidate arrays of the loop: the fields the revision's suppressor never
\* reads (classId in app.js, label in the second script.js) held to one value
LoopValues(v) ==
    CASE v = "app" -> { a \in AppValues :
                          /\ a.classId = 0
                          /\ <<a.x1, a.y1, a.x2 - a.x1, a.y2 - a.y1>> \in LoopGeometries }
      [] v = "scoped" -> { a \in ScriptValues : a.box \in LoopGeometries }
      [] v = "global" -> { a \in ScriptValues :
                             a.box \in LoopGeometries /\ a.label = "cat" }

LoopArrays(v) ==
    { [i \in DOMAIN a |-> WithRef(a[i], i)] : a \in SeqsUpTo(LoopValues(v), MaxLoopCands) }

\* the threshold each revision's decoder passes
CallThreshold(v) == IF v = "app" THEN nmsThresholdApp ELSE nmsThresholdScript

LoopInit ==
    /\ variant \in Variants
    /\ iouThreshold = CallThreshold(variant)
    /\ boxes \in LoopArrays(variant)
    /\ input = boxes
    /\ selected = <<>>
    /\ first = <<>>
    /\ spc = "call"
    /\ iterations = 0
    /\ args = <<>> /\ second = <<>>
    /\ loop = "off" /\ session = FALSE /\ paused = FALSE
    /\ load = "off" /\ clicks = 0 /\ cameras = 0 /\ metadata = 0 /\ chains = <<>>
    /\ tensor = NoTensor /\ content = <<>> /\ layout = "CN" /\ canvas = <<0, 0>>
    /\ prompts = <<>> /\ decoder = "off" /\ rows = <<>> /\ cands = <<>>
    /\ dets = <<>> /\ outcome = "none"

\* const currentBox = sortedBoxes.shift(): what is left in the array
peek(sortedBoxes) == sortedBoxes

shift(sortedBoxes) == Tail(sortedBoxes)

\* app.js nms, lines 238-240: if (boxes.length === 0) return []; boxes.sort(...)
NmsEnter ==
    /\ spc = "call" /\ variant = "app"
    /\ IF Len(boxes) = 0
       THEN spc' = "returned" /\ UNCHANGED boxes
       ELSE spc' = "loop" /\ boxes' = SortByScoreDesc(boxes)
    /\ UNCHANGED <<variant, iouThreshold, input, selected, first, iterations>>
    /\ UNCHANGED dvars
    /\ UNCHANGED evars
    /\ UNCHANGED pvars
    /\ UNCHANGED uvars

\* app.js nms, lines 243-246: one run of the body of while (boxes.length > 0)
NmsIteration ==
    /\ spc = "loop" /\ variant = "app"
    /\ Len(boxes) > 0
    /\ iterations <= MaxLoopCands
    /\ selected' = Append(selected, boxes[1])
    /\ boxes' = nmsFilter(boxes, iouThreshold)
    /\ iterations' = iterations + 1
    /\ UNCHANGED <<variant, iouThreshold, input, first, spc>>
    /\ UNCHANGED dvars
    /\ UNCHANGED evars
    /\ UNCHANGED pvars
    /\ UNCHANGED uvars

\* script.js lines 229-230 and 514-515: boxes.sort(...), selectedBoxes = []
SuppressEnter ==
    /\ spc = "call" /\ variant \in {"scoped", "global"}
    /\ boxes' = SortByScoreDesc(boxes)
    /\ spc' = "loop"
    /\ UNCHANGED <<variant, iouThreshold, input, selected, first, iterations>>
    /\ UNCHANGED dvars
    /\ UNCHANGED evars
    /\ UNCHANGED pvars
    /\ UNCHANGED uvars

\* script.js lines 232-243 and 517-527: one run of the body of
\* while (sortedBoxes.length > 0)
SuppressIteration ==
    /\ spc = "loop" /\ variant \in {"scoped", "global"}
    /\ Len(boxes) > 0
    /\ iterations <= MaxLoopCands
    /\ LET currentBox == Head(boxes)
           rest == shift(boxes)
       IN /\ selected' = Append(selected, currentBox)
          /\ boxes' = spliceLoop(currentBox, rest, Len(rest), iouThreshold,
                                 variant = "scoped")
    /\ iterations' = iterations + 1
    /\ UNCHANGED <<variant, iouThreshold, input, first, spc>>
    /\ UNCHANGED dvars
    /\ UNCHANGED evars
    /\ UNCHANGED pvars
    /\ UNCHANGED uvars

\* the while condition found false: return selectedBoxes
LoopReturn ==
    /\ spc = "loop"
    /\ Len(boxes) = 0
    /\ spc' = "returned"
    /\ UNCHANGED <<variant, iouThreshold, boxes, input, selected, first, iterations>>
    /\ UNCHANGED dvars
    /\ UNCHANGED evars
    /\ UNCHANGED pvars
    /\ UNCHANGED uvars

LoopNext ==
    \/ NmsEnter
    \/ NmsIteration
    \/ SuppressEnter
    \/ SuppressIteration
    \/ LoopReturn

\* the call runs to completion: JavaScript runs a function without preemption
SpecLoop == LoopInit /\ [][LoopNext]_vars /\ WF_vars(LoopNext)

----------------------------------------------------------------------------
(* The decoder called twice on one tensor, with UI events in between *)

MaxPrompts == 2

\* what the user may type into a prompt's name field: nothing, or a name
TypedNames == {"", "Rex"}

\* `Pet #${promptCount}`
PetName(promptCount) == "Pet #" \o ToString(promptCount)

\* main has run: one prompt created, the canvas sized, a tensor returned
EventsInit ==
    /\ content \in ContentsThreeScores
    /\ layout \in {"CN", "NC"}
    /\ tensor = [data |-> Present(content, layout), dims |-> FullDims(content, layout)]
    /\ canvas \in Canvases
    /\ prompts = <<PetName(1)>>
    /\ decoder = "none" /\ rows = <<>> /\ cands = <<>> /\ dets = <<>>
    /\ outcome = "none"
    /\ variant = "app" /\ iouThreshold = nmsThresholdApp /\ boxes = <<>>
    /\ input = <<>> /\ selected = <<>> /\ first = <<>> /\ spc = "off"
    /\ iterations = 0
    /\ args = <<>> /\ second = Undefined
    /\ loop = "off" /\ session = FALSE /\ paused = FALSE
    /\ load = "off" /\ clicks = 0 /\ cameras = 0 /\ metadata = 0 /\ chains = <<>>

\* video.onloadedmetadata: canvas.width = video.videoWidth;
\* canvas.height = video.videoHeight
OnLoadedMetadata ==
    /\ decoder # "off"
    /\ canvas' \in Canvases
    /\ UNCHANGED <<tensor, content, layout, prompts, decoder, rows, cands, dets, outcome>>
    /\ UNCHANGED svars
    /\ UNCHANGED xvars
    /\ UNCHANGED uvars

\* handlePromptCreation: promptCount++; prompts.push({ id, name: `Pet #${promptCount}` })
HandlePromptCreation ==
    /\ decoder # "off"
    /\ Len(prompts) < MaxPrompts
    /\ prompts' = Append(prompts, PetName(Len(prompts) + 1))
    /\ UNCHANGED <<tensor, content, layout, canvas, decoder, rows, cands, dets, outcome>>
    /\ UNCHANGED svars
    /\ UNCHANGED xvars
    /\ UNCHANGED uvars

\* the input listener of prompt id:
\* prompts[id].name = e.target.value || `Pet #${promptCount}`
OnNameInput ==
    /\ decoder # "off"
    /\ \E id \in DOMAIN prompts, value \in TypedNames :
          prompts' = [prompts EXCEPT
                         ![id] = IF value = "" THEN PetName(Len(prompts)) ELSE value]
    /\ UNCHANGED <<tensor, content, layout, canvas, decoder, rows, cands, dets, outcome>>
    /\ UNCHANGED svars
    /\ UNCHANGED xvars
    /\ UNCHANGED uvars

\* the same call made again on the same tensor: app.js passes the width and
\* height as arguments, script.js reads canvas and prompts where they are
DecodeAgain ==
    /\ decoder \in {"app", "script", "script2"}
    /\ second = Undefined
    /\ second' =
          Some(CASE decoder = "app" -> processAndDraw(tensor, args[1], args[2]).result
                 [] decoder = "script" ->
                        postprocessResults(tensor, canvas[1], canvas[2]).result
                 [] decoder = "script2" ->
                        postprocessResults2(tensor, prompts, canvas[1], canvas[2]).result)
    /\ UNCHANGED dvars
    /\ UNCHANGED svars
    /\ UNCHANGED <<iterations, args>>
    /\ UNCHANGED pvars
    /\ UNCHANGED uvars

EventsNext ==
    \/ ProcessAndDraw
    \/ PostprocessResults
    \/ PostprocessResults2
    \/ OnLoadedMetadata
    \/ HandlePromptCreation
    \/ OnNameInput
    \/ DecodeAgain

SpecEvents == EventsInit /\ [][EventsNext]_vars

----------------------------------------------------------------------------
(* The detection loop: detectFrame (app.js) and runDetection (script.js) *)

\* the revision of the loop is named by its suppressor: "app" is detectFrame,
\* "scoped" the first runDetection, "global" the second
DecoderOf(v) ==
    CASE v = "app" -> "app" [] v = "scoped" -> "script" [] v = "global" -> "script2"

\* one candidate above the threshold, and one with no score above it
FrameContents ==
    { [channels |-> 7, rows |-> << <<100, 100, 50, 50, sc, sc \div 2, 0>> >>]
      : sc \in {0, 95} }

\* the layout the revision's decoder is written for
LayoutOf(v) == IF v = "global" THEN "NC" ELSE "CN"

\* results.output0 for a well-formed frame
WellFormedTensors(v) ==
    { [data |-> Present(c, LayoutOf(v)), dims |-> FullDims(c, LayoutOf(v))]
      : c \in FrameContents }

\* results.output0 with a dimension missing from its shape
MalformedTensors(v) ==
    { [data |-> t.data, dims |-> SubSeq(t.dims, 1, 2)] : t \in WellFormedTensors(v) }

\* what session.run resolves with: some output0, or a result with no output0
RunResults(v) ==
    { Some(t) : t \in WellFormedTensors(v) \cup MalformedTensors(v) } \cup {Undefined}

\* postprocessResults(results.output0) / processAndDraw(results.output0, ...):
\* reading .data of an undefined output0 throws a TypeError
decodeOutput(v, output0, names, width, height) ==
    IF output0 = Undefined
    THEN [outcome |-> "TypeError", rows |-> <<>>, boxes |-> <<>>, result |-> <<>>]
    ELSE CASE v = "app" -> processAndDraw(output0[1], width, height)
           [] v = "scoped" -> postprocessResults(output0[1], width, height)
           [] v = "global" -> postprocessResults2(output0[1], names, width, height)

\* the call after the catch block, placed inside the try block: a cycle that
\* throws schedules nothing
scheduleInsideTry(threw) == IF threw THEN "stopped" ELSE "scheduled"

\* requestAnimationFrame(detectFrame) / requestAnimationFrame(runDetection)
\* after the try ... catch: reached whether or not the cycle threw
scheduleAfterCatch(threw) == "scheduled"

\* app.js: video.onloadedmetadata has called detectFrame() (the start handler
\* runs only with a session); script.js: main has called runDetection() after
\* loadModel, which leaves session unset when loading failed
PipelineInit ==
    /\ variant \in Variants
    /\ iouThreshold = CallThreshold(variant)
    /\ session \in (IF variant = "app" THEN {TRUE} ELSE BOOLEAN)
    /\ paused = FALSE
    /\ loop = "running"
    /\ tensor = NoTensor /\ content = <<>> /\ layout = LayoutOf(variant)
    /\ canvas = <<1280, 320>>
    /\ prompts = IF variant = "app" THEN <<>> ELSE <<PetName(1)>>
    /\ decoder = "none" /\ rows = <<>> /\ cands = <<>> /\ dets = <<>>
    /\ outcome = "none"
    /\ boxes = <<>> /\ input = <<>> /\ selected = <<>> /\ first = <<>> /\ spc = "off"
    /\ iterations = 0
    /\ args = <<>> /\ second = Undefined
    /\ load = "off" /\ clicks = 0 /\ cameras = 0 /\ metadata = 0 /\ chains = <<>>

PipelineKeeps ==
    /\ UNCHANGED <<tensor, content, layout, canvas, prompts, decoder, rows, cands,
                   dets, outcome>>
    /\ UNCHANGED svars
    /\ UNCHANGED <<iterations, args, second>>
    /\ UNCHANGED uvars

\* the browser runs the callback passed to requestAnimationFrame
AnimationFrame ==
    /\ loop = "scheduled"
    /\ loop' = "running"
    /\ UNCHANGED <<session, paused>>
    /\ PipelineKeeps

\* the camera stream ends or the video is paused
VideoPauses ==
    /\ loop \in {"scheduled", "running", "awaiting"}
    /\ variant = "app" /\ ~paused
    /\ paused' = TRUE
    /\ UNCHANGED <<loop, session>>
    /\ PipelineKeeps

\* app.js detectFrame, lines 113-123: if (video.paused || video.ended) return;
\* otherwise preprocess and call session.run
DetectFrame ==
    /\ loop = "running" /\ variant = "app"
    /\ loop' = IF paused THEN "returned" ELSE "awaiting"
    /\ UNCHANGED <<session, paused>>
    /\ PipelineKeeps

\* script.js runDetection, lines 104-115 and 375-391: without a session the
\* callback schedules itself again; otherwise preprocess and call session.run
RunDetection ==
    /\ loop = "running" /\ variant \in {"scoped", "global"}
    /\ loop' = IF session THEN "awaiting" ELSE "scheduled"
    /\ UNCHANGED <<session, paused>>
    /\ PipelineKeeps

\* script.js line 381: await preprocessPrompts() rejects (image.decode() of a
\* prompt file that is no image); the call is outside the try block
PreprocessPromptsRejects ==
    /\ loop = "running" /\ variant = "global" /\ session
    /\ loop' = "rejected"
    /\ outcome' = "EncodingError"
    /\ dets' = <<>> /\ cands' = <<>> /\ rows' = <<>>
    /\ UNCHANGED <<tensor, content, layout, canvas, prompts, decoder>>
    /\ UNCHANGED svars
    /\ UNCHANGED <<iterations, args, second, session, paused>>
    /\ UNCHANGED uvars

\* await session.run(feeds) rejects: the catch block logs, and the call
\* after it schedules the next cycle
SessionRunRejects ==
    /\ loop = "awaiting"
    /\ outcome' = "rejected"
    /\ dets' = <<>> /\ cands' = <<>> /\ rows' = <<>>
    /\ loop' = scheduleAfterCatch(TRUE)
    /\ UNCHANGED <<tensor, content, layout, canvas, prompts, decoder>>
    /\ UNCHANGED svars
    /\ UNCHANGED <<iterations, args, second, session, paused>>
    /\ UNCHANGED uvars

\* await session.run(feeds) resolves: decode, suppress and draw inside the
\* try block; a throw is caught and logged, nothing having been returned
SessionRunResolves ==
    /\ loop = "awaiting"
    /\ \E output0 \in RunResults(variant) :
          LET r == decodeOutput(variant, output0, prompts, canvas[1], canvas[2])
              threw == r.outcome # "ok"
          IN /\ tensor' = IF output0 = Undefined THEN NoTensor ELSE output0[1]
             /\ decoder' = DecoderOf(variant)
             /\ outcome' = r.outcome
             /\ rows' = r.rows /\ cands' = r.boxes /\ dets' = r.result
             /\ loop' = scheduleAfterCatch(threw)
    /\ UNCHANGED <<content, layout, canvas, prompts>>
    /\ UNCHANGED svars
    /\ UNCHANGED <<iterations, args, second, session, paused>>
    /\ UNCHANGED uvars

\* the cycle whose frame is well-formed
ProcessesWellFormed ==
    /\ SessionRunResolves
    /\ tensor' \in WellFormedTensors(variant)

PipelineNext ==
    \/ AnimationFrame
    \/ VideoPauses
    \/ DetectFrame
    \/ RunDetection
    \/ PreprocessPromptsRejects
    \/ SessionRunRejects
    \/ SessionRunResolves

\* the browser runs every scheduled callback, every call of session.run
\* settles, and well-formed frames keep arriving
SpecPipeline ==
    /\ PipelineInit /\ [][PipelineNext]_vars
    /\ WF_vars(AnimationFrame)
    /\ WF_vars(DetectFrame)
    /\ WF_vars(RunDetection)
    /\ WF_vars(SessionRunRejects \/ SessionRunResolves)
    /\ SF_vars(ProcessesWellFormed)

----------------------------------------------------------------------------
(* Start-up and the UI events that start detection loops *)

MaxClicks == 2

\* if (!session), with the test left out
neverUnset(sess) == FALSE

\* if (!session): app.js line 50, script.js lines 104 and 375
unsetSession(sess) == ~sess

\* app.js: DOMContentLoaded has called loadModel() and installed the click
\* handler; script.js: main has created the first prompt and setupCamera has
\* called getUserMedia
StartInit ==
    /\ variant \in Variants
    /\ iouThreshold = CallThreshold(variant)
    /\ session = FALSE
    /\ paused = TRUE
    /\ load = IF variant = "app" THEN "pending" ELSE "idle"
    /\ clicks = 0
    /\ cameras = IF variant = "app" THEN 0 ELSE 1
    /\ metadata = 0
    /\ chains = <<>>
    /\ loop = "off"
    /\ tensor = NoTensor /\ content = <<>> /\ layout = LayoutOf(variant)
    /\ canvas = <<640, 640>>
    /\ prompts = IF variant = "app" THEN <<>> ELSE <<PetName(1)>>
    /\ decoder = "none" /\ rows = <<>> /\ cands = <<>> /\ dets = <<>>
    /\ outcome = "none"
    /\ boxes = <<>> /\ input = <<>> /\ selected = <<>> /\ first = <<>> /\ spc = "off"
    /\ iterations = 0
    /\ args = <<>> /\ second = Undefined

StartKeeps ==
    /\ UNCHANGED <<tensor, content, layout, prompts, decoder, rows, cands, dets, outcome>>
    /\ UNCHANGED svars
    /\ UNCHANGED <<iterations, args, second, loop>>

\* session = await ort.InferenceSession.create(...) resolves; in script.js
\* main then calls runDetection()
LoadModelResolves ==
    /\ load = "pending"
    /\ load' = "loaded"
    /\ session' = TRUE
    /\ chains' = IF variant = "app" THEN chains ELSE Append(chains, "running")
    /\ UNCHANGED <<clicks, cameras, metadata, paused, canvas>>
    /\ StartKeeps

\* ort.InferenceSession.create rejects: loadModel catches and reports, session
\* stays unset; in script.js main calls runDetection() all the same
LoadModelRejects ==
    /\ load = "pending"
    /\ load' = "failed"
    /\ chains' = IF variant = "app" THEN chains ELSE Append(chains, "running")
    /\ UNCHANGED <<session, clicks, cameras, metadata, paused, canvas>>
    /\ StartKeeps

\* app.js lines 49-59: the click handler; without a session it alerts and
\* returns, with one it calls getUserMedia
StartClick ==
    /\ variant = "app" /\ load # "off"
    /\ clicks < MaxClicks
    /\ clicks' = clicks + 1
    /\ cameras' = IF unsetSession(session) THEN cameras ELSE cameras + 1
    /\ UNCHANGED <<load, session, metadata, chains, paused, canvas>>
    /\ StartKeeps

\* getUserMedia resolves: video.srcObject = stream, so that loadedmetadata
\* is due; app.js also calls video.play() and sets video.onloadedmetadata
GetUserMediaResolves ==
    /\ load # "off" /\ cameras > 0
    /\ cameras' = cameras - 1
    /\ metadata' = metadata + 1
    /\ paused' = IF variant = "app" THEN FALSE ELSE paused
    /\ UNCHANGED <<load, session, clicks, chains, canvas>>
    /\ StartKeeps

\* getUserMedia rejects: app.js catches and reports; in script.js main ends
GetUserMediaRejects ==
    /\ load # "off" /\ cameras > 0
    /\ cameras' = cameras - 1
    /\ UNCHANGED <<load, session, clicks, metadata, chains, paused, canvas>>
    /\ StartKeeps

\* video.onloadedmetadata.  app.js lines 66-76: size the canvas and call
\* detectFrame().  script.js lines 51-55: size the canvas and resolve the
\* promise main awaits; main then calls video.play() and loadModel()
OnLoadedMetadataStart ==
    /\ load # "off" /\ metadata > 0
    /\ metadata' = metadata - 1
    /\ canvas' \in Canvases
    /\ IF variant = "app"
       THEN /\ chains' = Append(chains, "running")
            /\ UNCHANGED <<load, paused>>
       ELSE /\ load' = IF load = "idle" THEN "pending" ELSE load
            /\ paused' = IF load = "idle" THEN FALSE ELSE paused
            /\ UNCHANGED chains
    /\ UNCHANGED <<session, clicks, cameras>>
    /\ StartKeeps

\* script.js: loadedmetadata fired again; the promise is already resolved,
\* the handler sizes the canvas
OnLoadedMetadataAgain ==
    /\ variant \in {"scoped", "global"}
    /\ load \in {"pending", "loaded", "failed"}
    /\ canvas' \in Canvases \ {canvas}
    /\ UNCHANGED <<load, session, clicks, cameras, metadata, chains, paused>>
    /\ StartKeeps

\* the camera stream ends or the video is paused
VideoPausesStart ==
    /\ variant = "app" /\ load # "off"
    /\ ~paused
    /\ paused' = TRUE
    /\ UNCHANGED <<load, session, clicks, cameras, metadata, chains, canvas>>
    /\ StartKeeps

\* chain i moves to position to
ChainStep(i, to) ==
    /\ chains' = [chains EXCEPT ![i] = to]
    /\ UNCHANGED <<load, session, clicks, cameras, metadata, paused, canvas>>

\* the browser runs the callback chain i passed to requestAnimationFrame
ChainAnimationFrame(i) ==
    /\ i \in DOMAIN chains /\ chains[i] = "scheduled"
    /\ ChainStep(i, "running")
    /\ StartKeeps

\* app.js detectFrame, lines 113-124, in chain i
ChainDetectFrame(i) ==
    /\ variant = "app"
    /\ i \in DOMAIN chains /\ chains[i] = "running"
    /\ ChainStep(i, IF paused THEN "returned" ELSE "awaiting")
    /\ StartKeeps

\* script.js runDetection, lines 104-115 and 375-391
ChainRunDetection(i) ==
    /\ variant \in {"scoped", "global"}
    /\ i \in DOMAIN chains /\ chains[i] = "running"
    /\ ChainStep(i, IF unsetSession(session) THEN "scheduled" ELSE "awaiting")
    /\ StartKeeps

\* await session.run(feeds) of chain i rejects
ChainSessionRunRejects(i) ==
    /\ i \in DOMAIN chains /\ chains[i] = "awaiting"
    /\ outcome' = "rejected"
    /\ dets' = <<>> /\ cands' = <<>> /\ rows' = <<>>
    /\ ChainStep(i, scheduleAfterCatch(TRUE))
    /\ UNCHANGED <<tensor, content, layout, prompts, decoder>>
    /\ UNCHANGED svars
    /\ UNCHANGED <<iterations, args, second, loop>>

\* await session.run(feeds) of chain i resolves: decode, suppress, draw
ChainSessionRunResolves(i) ==
    /\ i \in DOMAIN chains /\ chains[i] = "awaiting"
    /\ \E output0 \in RunResults(variant) :
          LET r == decodeOutput(variant, output0, prompts, canvas[1], canvas[2])
          IN /\ tensor' = IF output0 = Undefined THEN NoTensor ELSE output0[1]
             /\ decoder' = DecoderOf(variant)
             /\ outcome' = r.outcome
             /\ rows' = r.rows /\ cands' = r.boxes /\ dets' = r.result
             /\ ChainStep(i, scheduleAfterCatch(r.outcome # "ok"))
    /\ UNCHANGED <<content, layout, prompts>>
    /\ UNCHANGED svars
    /\ UNCHANGED <<iterations, args, second, loop>>

StartNext ==
    \/ LoadModelResolves
    \/ LoadModelRejects
    \/ StartClick
    \/ GetUserMediaResolves
    \/ GetUserMediaRejects
    \/ OnLoadedMetadataStart
    \/ OnLoadedMetadataAgain
    \/ VideoPausesStart
    \/ \E i \in 1..MaxClicks : ChainAnimationFrame(i)
    \/ \E i \in 1..MaxClicks : ChainDetectFrame(i)
    \/ \E i \in 1..MaxClicks : ChainRunDetection(i)
    \/ \E i \in 1..MaxClicks : ChainSessionRunRejects(i)
    \/ \E i \in 1..MaxClicks : ChainSessionRunResolves(i)

\* the browser runs every scheduled callback, every function body runs on,
\* and every pending promise (model loading, session.run) settles
SpecStart ==
    /\ StartInit /\ [][StartNext]_vars
    /\ WF_vars(LoadModelResolves \/ LoadModelRejects)
    /\ \A i \in 1..MaxClicks :
          /\ WF_vars(ChainAnimationFrame(i))
          /\ WF_vars(ChainDetectFrame(i))
          /\ WF_vars(ChainRunDetection(i))
          /\ WF_vars(ChainSessionRunRejects(i) \/ ChainSessionRunResolves(i))

Init == SuppressInit \/ DecodeInit \/ LoopInit \/ EventsInit \/ PipelineInit \/ StartInit

Next ==
    \/ SuppressNext \/ DecodeNext \/ LoopNext \/ EventsNext \/ PipelineNext
    \/ StartNext

Spec == Init /\ [][Next]_vars

----------------------------------------------------------------------------
(* Claims about the suppressor, under SpecSuppress *)

Suppressed == spc \in {"once", "twice"}

\* [x, y, width, height] of a candidate of either shape
GeomOf(b) ==
    IF "box" \in DOMAIN b THEN b.box
    ELSE <<b.x1, b.y1, b.x2 - b.x1, b.y2 - b.y1>>

InSeq(x, s) == \E k \in DOMAIN s : s[k] = x

\* C1: no two distinct detections returned by the suppressor have IoU >= the
\* threshold (of the same label only, in the class-scoped revision); a pair
\* whose IoU equals the threshold does not survive together.
C1_NoPairAtOrAboveThreshold ==
    Suppressed =>
        \A i, j \in DOMAIN selected :
            (i < j /\ (variant = "scoped" => LabelOf(selected[i]) = LabelOf(selected[j])))
                => ~QuotGe(Overlap(variant, selected[i], selected[j]), iouThreshold)

\* What the code does give: app.js keeps no pair with IoU >= threshold, and
\* script.js keeps no (same-label) pair with IoU > threshold.
C1_CutoffOfEachRevision ==
    Suppressed =>
        \A i, j \in DOMAIN selected :
            (i < j /\ (variant = "scoped" => LabelOf(selected[i]) = LabelOf(selected[j])))
                => IF variant = "app"
                   THEN ~QuotGe(Overlap(variant, selected[i], selected[j]), iouThreshold)
                   ELSE ~QuotGt(Overlap(variant, selected[i], selected[j]), iouThreshold)

\* C3: suppressing the suppressor's own output returns the same detections in
\* the same order.
C3_Idempotent == spc = "twice" => selected = first

C3_Witness ==
    /\ spc = "twice"
    /\ Len(first) >= 2
    /\ Len(first) < Len(input)
    /\ selected = first

\* C4: with class-scoped suppression a candidate is never suppressed by a
\* candidate of another label: every candidate whose label no other candidate
\* carries is returned, so two boxes of different labels both survive whatever
\* their overlap.
C4_OtherLabelsNeverSuppress ==
    (variant = "scoped" /\ Suppressed) =>
        \A i \in DOMAIN input :
            (\A j \in DOMAIN input : j # i => input[j].label # input[i].label)
                => InSeq(input[i], selected)

C4_Witness ==
    /\ variant = "scoped" /\ spc = "once"
    /\ Len(input) = 2
    /\ input[1].box = input[2].box
    /\ AreaOf(input[1]) > 0
    /\ input[1].label # input[2].label
    /\ InSeq(input[1], selected) /\ InSeq(input[2], selected)

\* the two candidates of C5: same class, same geometry of positive area,
\* scores 0.9 and 0.8
C5_Case ==
    /\ Len(input) = 2
    /\ GeomOf(input[1]) = GeomOf(input[2])
    /\ AreaOf(input[1]) > 0
    /\ LabelOf(input[1]) = LabelOf(input[2])
    /\ {input[1].score, input[2].score} = {80, 90}
    /\ iouThreshold = 50

\* C5: two fully overlapping candidates of one class with scores 0.9 and 0.8
\* and threshold 0.5 give exactly one detection, the one scoring 0.9, in
\* either input order.
C5_KeepsHigherScore ==
    (Suppressed /\ C5_Case) =>
        /\ Len(selected) = 1
        /\ selected[1].score = 90
        /\ InSeq(selected[1], input)

C5_Witness ==
    /\ spc = "once" /\ C5_Case
    /\ input[1].score = 80 /\ input[2].score = 90
    /\ selected = <<input[2]>>

----------------------------------------------------------------------------
(* Claims about the decoder, under SpecDecode *)

Decoded == decoder \in {"app", "script", "script2"}

\* n pixels in quarter pixels
Px(n) == 4 * n

\* the tensor is in the layout the revision that decoded it is written for
OwnLayout ==
    \/ decoder \in {"app", "script"} /\ layout = "CN"
    \/ decoder = "script2" /\ layout = "NC"

Decode(dec, t) ==
    CASE dec = "app" -> processAndDraw(t, canvas[1], canvas[2])
      [] dec = "script" -> postprocessResults(t, canvas[1], canvas[2])
      [] dec = "script2" -> postprocessResults2(t, prompts, canvas[1], canvas[2])

\* C2: every detection the decoder produces, and so every detection left after
\* suppression, has a score strictly above the confidence threshold.
C2_ScoresAboveThreshold ==
    Decoded =>
        /\ \A k \in DOMAIN cands : cands[k].score > confidenceThreshold
        /\ \A k \in DOMAIN dets : dets[k].score > confidenceThreshold

\* a candidate scoring exactly the threshold was rejected, the other accepted
C2_Witness ==
    /\ decoder = "script" /\ layout = "CN" /\ Len(tensor.dims) = 3
    /\ content.channels = 6 /\ Len(content.rows) = 2
    /\ content.rows[1][5] = confidenceThreshold /\ content.rows[1][6] = 0
    /\ Len(cands) = 1 /\ cands[1].ref = 2
    /\ Len(dets) = 1

MalformedShape ==
    \/ Len(tensor.dims) < 3
    \/ (IF decoder = "script2" THEN tensor.dims[3] ELSE tensor.dims[2]) < 5

NoneAboveThreshold ==
    \A i \in DOMAIN content.rows :
        \A j \in 5..Len(content.rows[i]) : content.rows[i][j] <= confidenceThreshold

\* C8: when no candidate has a maximum class score above the threshold (the
\* all-zero tensor and N = 0 included), the decoder returns the empty sequence
\* and raises no error.
C8_NothingAboveThresholdIsEmpty ==
    (Decoded /\ OwnLayout /\ Len(tensor.dims) = 3 /\ NoneAboveThreshold) =>
        /\ outcome = "ok"
        /\ cands = <<>>
        /\ dets = <<>>

C8_Witness ==
    /\ decoder = "app" /\ layout = "CN" /\ Len(tensor.dims) = 3
    /\ content.channels = 6 /\ Len(content.rows) = 2
    /\ content.rows[1][5] = confidenceThreshold
    /\ NoneAboveThreshold
    /\ outcome = "ok" /\ dets = <<>>

\* the tensor of C9: shape [1, 6, 4], exactly one candidate scoring 0.95 in
\* channel 4 and three below the threshold
C9_Case ==
    /\ tensor.dims = <<1, 6, 4>> /\ layout = "CN"
    /\ content.channels = 6 /\ Len(content.rows) = 4
    /\ Cardinality({i \in 1..4 : content.rows[i][5] = 95}) = 1
    /\ \A i \in 1..4 : content.rows[i][5] # 95 => content.rows[i][5] < confidenceThreshold

\* the low-scoring candidates whose class channel holds more than the threshold
C9_HighClassValue ==
    {i \in 1..4 : content.rows[i][5] # 95 /\ content.rows[i][6] > confidenceThreshold}

C10_Case(c) ==
    /\ canvas[1] = 1280
    /\ c.ref \in DOMAIN rows
    /\ Len(rows[c.ref]) >= 4
    /\ SubSeq(rows[c.ref], 1, 4) = <<100, 100, 50, 50>>

C10_X(c) == IF decoder = "app" THEN c.x1 ELSE c.box[1]
C10_Width(c) == IF decoder = "app" THEN c.x2 - c.x1 ELSE c.box[3]

----------------------------------------------------------------------------
(* Further claims about the suppressor, under SpecSuppress *)

\* C13: the suppressor changes no field of a detection and invents none: each
\* detection it returns is the input record of the same identity, with box,
\* class or label and score as supplied, and no input record is returned twice.
C13_OutputIsSubCollection ==
    Suppressed =>
        /\ \A k \in DOMAIN selected :
              /\ selected[k].ref \in DOMAIN input
              /\ selected[k] = input[selected[k].ref]
        /\ \A i, j \in DOMAIN selected : i # j => selected[i].ref # selected[j].ref

C13_Witness ==
    /\ spc = "once"
    /\ Len(input) = 3 /\ Len(selected) = 2
    /\ selected[1] = input[3] /\ selected[2] = input[1]

\* C14: a candidate of zero area (its IoU with every other box counting as 0,
\* another zero-area box at the same position included) is never removed by
\* the suppressor.
C14_ZeroAreaNeverRemoved ==
    Suppressed =>
        \A i \in DOMAIN input :
            AreaOf(input[i]) = 0 => InSeq(input[i], selected)

\* What the code gives: the overlap of two zero-area boxes is 0 / 0, which is
\* neither > threshold (script.js keeps both) nor < threshold (app.js keeps
\* only the first); against a box with area the overlap is 0.
C14_ZeroAreaInEachRevision ==
    Suppressed =>
        \A i \in DOMAIN input :
            AreaOf(input[i]) = 0 =>
                /\ variant # "app" => InSeq(input[i], selected)
                /\ variant = "app" =>
                      (InSeq(input[i], selected) <=>
                          \A j \in DOMAIN input :
                              (j # i /\ AreaOf(input[j]) = 0) =>
                                  (input[j].score < input[i].score
                                   \/ (input[j].score = input[i].score /\ i < j)))
                /\ \A j \in DOMAIN input :
                      j # i => LET q == Overlap(variant, input[i], input[j])
                               IN q.num = 0 /\ (q.den = 0 <=> AreaOf(input[j]) = 0)

\* C16: the suppressor's output is ordered by score, non-increasing from first
\* to last, and two surviving detections of equal score appear in the same
\* relative order as in the input candidate list.
C16_DescendingAndStable ==
    Suppressed =>
        \A i, j \in DOMAIN selected :
            i < j =>
                /\ selected[i].score >= selected[j].score
                /\ selected[i].score = selected[j].score
                      => selected[i].ref < selected[j].ref

C16_Witness ==
    /\ spc = "once"
    /\ Len(input) = 3
    /\ input[1].score = 80 /\ input[2].score = 90 /\ input[3].score = 80
    /\ selected = <<input[2], input[1], input[3]>>

\* the input candidates the suppressor did not return
Removed == { i \in DOMAIN input : ~InSeq(input[i], selected) }

\* the returned detection k is a cause to remove candidate i, the overlap
\* being beyond the cutoff
CauseOf(k, i, beyond(_)) ==
    /\ beyond(Overlap(variant, selected[k], input[i]))
    /\ selected[k].score >= input[i].score
    /\ variant = "scoped" => LabelOf(selected[k]) = LabelOf(input[i])

HighestSurvives ==
    input # <<>> =>
        /\ selected # <<>>
        /\ \A i \in DOMAIN input : selected[1].score >= input[i].score

\* C20: every input candidate absent from the suppressor's output overlaps,
\* beyond the revision's cutoff (IoU > threshold in script.js, IoU >= threshold
\* in app.js), some returned detection whose score is at least its own and, in
\* the class-scoped revision, whose label is its own; and the highest-scoring
\* candidate is always returned.
C20_RemovedOnlyBeyondCutoff ==
    Suppressed =>
        /\ \A i \in Removed :
              \E k \in DOMAIN selected :
                  IF variant = "app"
                  THEN CauseOf(k, i, LAMBDA q : QuotGe(q, iouThreshold))
                  ELSE CauseOf(k, i, LAMBDA q : QuotGt(q, iouThreshold))
        /\ HighestSurvives

\* What the code gives: app.js removes a candidate whose overlap with a
\* returned detection is not below the threshold, which 0 / 0 is not either.
C20_RemovedWhenNotBelowCutoff ==
    Suppressed =>
        /\ \A i \in Removed :
              \E k \in DOMAIN selected :
                  IF variant = "app"
                  THEN CauseOf(k, i, LAMBDA q : ~QuotLt(q, iouThreshold))
                  ELSE CauseOf(k, i, LAMBDA q : QuotGt(q, iouThreshold))
        /\ HighestSurvives

----------------------------------------------------------------------------
(* Claims about the suppressor's loop, under SpecLoop *)

\* the loop taken step by step returns what the function returns
LoopAgrees == spc = "returned" => selected = Suppress(variant, input, iouThreshold)

\* each run of the body takes at least the popped candidate out of the array
C19_Measure ==
    /\ iterations <= Len(input)
    /\ spc = "loop" => Len(boxes) + iterations <= Len(input)
    /\ (spc = "returned" /\ input = <<>>) => (selected = <<>> /\ iterations = 0)

\* C19: the suppressor is total: for every candidate list it returns, the
\* body of its loop running at most once per input candidate because every
\* run removes at least the popped candidate; the empty list gives the empty
\* list.
C19_Total == [](C19_Measure) /\ <>(spc = "returned")

C19_Witness ==
    /\ spc = "returned"
    /\ Len(input) = 3
    /\ iterations = 2
    /\ Len(selected) = 2

----------------------------------------------------------------------------
(* Further claims about the decoder, under SpecDecode *)

\* the class index a candidate carries: classId in app.js, the index of its
\* label in classNames in script.js, the index its label was made from in the
\* second script.js
ClassIndexOf(c) ==
    CASE decoder = "app" -> c.classId
      [] decoder = "script" -> CHOOSE k \in 0..(numClasses - 1) : classNames[k + 1] = c.label
      [] decoder = "script2" -> CHOOSE k \in 0..numClasses : promptLabel(prompts, k) = c.label

\* the K class scores of the row a candidate was decoded from: the values
\* after the four box values
ScoresOfRow(c) == SubSeq(rows[c.ref], 5, Len(rows[c.ref]))

\* index ci (counted from 0) is the first maximum of scores, and score is
\* that maximum
IsFirstMaximum(scores, ci, score) ==
    /\ ci + 1 \in DOMAIN scores
    /\ scores[ci + 1] = score
    /\ \A j \in DOMAIN scores : scores[j] <= score
    /\ \A j \in DOMAIN scores : j < ci + 1 => scores[j] < score

\* C15: for every accepted candidate the class index is the index of the
\* maximum of its K class scores and the score is that maximum; of several
\* classes sharing the maximum the lowest index is chosen.
C15_ArgmaxOfClassScores ==
    Decoded =>
        \A k \in DOMAIN cands :
            IsFirstMaximum(ScoresOfRow(cands[k]), ClassIndexOf(cands[k]), cands[k].score)

\* What the code gives: app.js and the first script.js do so; the second
\* script.js takes the value at index 4 as the score and the first maximum
\* of the values from index 5 on as the class.
C15_ArgmaxInEachRevision ==
    Decoded =>
        \A k \in DOMAIN cands :
            LET row == rows[cands[k].ref]
            IN IF decoder = "script2"
               THEN /\ cands[k].score = row[5]
                    /\ \E m \in DOMAIN row :
                          IsFirstMaximum(SubSeq(row, 6, Len(row)),
                                         ClassIndexOf(cands[k]), row[m])
               ELSE IsFirstMaximum(ScoresOfRow(cands[k]), ClassIndexOf(cands[k]),
                                   cands[k].score)

\* [x, y, width, height] of a decoded candidate, in quarter pixels
DecodedBox(c) ==
    IF decoder = "app" THEN <<c.x1, c.y1, c.x2 - c.x1, c.y2 - c.y1>> ELSE c.box

\* v quarter pixels is the number num * dest / (den * model) of pixels
IsScaled(v, num, den, dest, model) == v * den * model = 4 * num * dest

LabelFor(table, ci) ==
    IF ci + 1 \in DOMAIN table THEN table[ci + 1] ELSE "Object " \o ToString(ci)

\* the rows the second script.js accepts: a confidence above the threshold
\* and some class value above 0
Accepted2(row) ==
    /\ Len(row) >= 5 /\ row[5] > confidenceThreshold
    /\ \E j \in 6..Len(row) : row[j] > 0

\* C18: every detection the decoder emits carries a defined label: the entry
\* of the label table (classNames, or the prompts) for its best class index
\* and, when the table has no entry for that index, a string made from the
\* index; decoding goes on to the other candidates of the frame.
C18_LabelAlwaysDefined ==
    /\ decoder = "app" => \A k \in DOMAIN cands : cands[k].classId >= 0
    /\ decoder = "script" =>
          \A k \in DOMAIN cands :
              \E ci \in 0..(numClasses - 1) :
                  /\ IsFirstMaximum(ScoresOfRow(cands[k]), ci, cands[k].score)
                  /\ cands[k].label = LabelFor(classNames, ci)
    /\ decoder = "script2" =>
          /\ outcome = "ok"
          /\ \A i \in DOMAIN rows :
                Accepted2(rows[i]) => \E k \in DOMAIN cands : cands[k].ref = i
          /\ \A k \in DOMAIN cands :
                LET row == rows[cands[k].ref]
                IN \E ci \in 0..(Len(row) - 6), m \in DOMAIN row :
                      /\ IsFirstMaximum(SubSeq(row, 6, Len(row)), ci, row[m])
                      /\ cands[k].label = LabelFor(prompts, ci)

\* the second script.js on two candidates: the first has best class index 1,
\* for which the one prompt has no entry
C18_Witness ==
    /\ decoder = "script2" /\ outcome = "ok"
    /\ Len(prompts) = 1
    /\ Len(cands) = 2
    /\ cands[1].label = "Object 1"
    /\ cands[2].label = prompts[1]

----------------------------------------------------------------------------
(* Claims about the decoder called twice, under SpecEvents *)

\* C11: two decode and suppress invocations on the same tensor with the same
\* configuration return the same detection list, whatever UI events (canvas
\* resize on loadedmetadata, prompt creation, prompt renaming) happen between
\* the two.
C11_SameTensorSameDetections ==
    second # Undefined => second[1] = dets

\* What the code gives: app.js, whose decoder takes the sizes as arguments,
\* returns the same list; script.js reads canvas.width, canvas.height and
\* prompts as they are at the moment of the call.
C11_AppSameDetections ==
    (second # Undefined /\ decoder = "app") => second[1] = dets

\* the second script.js gives another label after a prompt is renamed, the
\* canvas being as it was
C11_RenamedPromptSeen ==
    /\ decoder = "script2" /\ second # Undefined
    /\ Len(dets) = 1 /\ Len(second[1]) = 1
    /\ dets[1].box = second[1][1].box
    /\ dets[1].label = "Pet #1" /\ second[1][1].label = "Rex"

----------------------------------------------------------------------------
(* Claims about the detection loop, under SpecPipeline *)

\* the latest cycle failed inside the try block: session.run rejected, or
\* decoding threw
CaughtFailure == outcome \in {"rejected", "TypeError"}

\* a step that ends a cycle by such a failure
FailingCycle == loop = "awaiting" /\ loop' # "awaiting" /\ CaughtFailure'

\* the latest cycle decoded a well-formed frame and drew its detections
Processed == outcome = "ok" /\ tensor \in WellFormedTensors(variant)

\* the loop has ended for a cause other than a failure inside the try block:
\* the video paused or ended (app.js), or preprocessing rejected
EndedOtherwise == paused \/ loop = "rejected"

\* C12: a failure inside an inference cycle (session.run rejecting, decoding
\* throwing) never stops the loop: the failing cycle gives no detections and
\* the next cycle is scheduled and begins, so that a later well-formed frame
\* is processed (as long as the video plays and preprocessing succeeds).
C12_FailureKeepsLoopGoing ==
    /\ [][FailingCycle => (loop' = "scheduled" /\ dets' = <<>>)]_vars
    /\ (CaughtFailure /\ loop = "scheduled") ~> (loop = "running")
    /\ CaughtFailure ~> (Processed \/ EndedOtherwise)

C12_Witness ==
    /\ outcome = "TypeError" /\ decoder = "script2"
    /\ tensor = NoTensor
    /\ dets = <<>>
    /\ loop = "scheduled"

----------------------------------------------------------------------------
(* Claims about start-up and the UI events, under SpecStart *)

\* the chains whose session.run or post-processing has not finished
InFlight == { i \in DOMAIN chains : chains[i] = "awaiting" }

\* C21: at most one inference cycle is in flight at any time, whatever the UI
\* events: the start button clicked more than once, loadedmetadata firing
\* more than once.
C21_AtMostOneCycleInFlight == Cardinality(InFlight) <= 1

\* What the code gives: script.js calls runDetection() once, from main, so it
\* has one chain of cycles; app.js calls detectFrame() once per click that
\* found a session and got a camera.
C21_OneChainPerStart ==
    /\ variant \in {"scoped", "global"} => Len(chains) <= 1
    /\ variant = "app" => Len(chains) + metadata + cameras <= clicks

\* model loading has failed in script.js, whose main calls runDetection() all
\* the same
LoadFailedInScript == variant \in {"scoped", "global"} /\ load = "failed"

\* session.run is invoked only with a session, and without one there are no
\* detections; in app.js a failed load also leaves the camera unopened
NoRunWithoutSession ==
    /\ InFlight # {} => session
    /\ ~session => dets = <<>> /\ outcome = "none"
    /\ load = "failed" => ~session /\ InFlight = {}
    /\ variant = "app" /\ ~session => cameras = 0 /\ metadata = 0 /\ chains = <<>>

\* C22: session.run is never invoked while the session is unset: app.js
\* starts the camera and the loop only from a click that finds the session
\* loaded, script.js runDetection only re-schedules itself while the session
\* is unset; after a failed load script.js polls forever (scheduled, run,
\* scheduled again) and no detection is ever produced.
C22_NoRunWithoutSession ==
    /\ [](NoRunWithoutSession)
    /\ LoadFailedInScript ~> (chains = <<"scheduled">>)
    /\ LoadFailedInScript ~> (chains = <<"running">>)

\* script.js after a failed load, its one chain re-scheduled by a poll
C22_Witness ==
    /\ LoadFailedInScript
    /\ ~session
    /\ chains = <<"scheduled">>
    /\ dets = <<>>

\* app.js after a failed load: clicks are answered by the alert alone
C22_ClickedWithoutSession ==
    /\ variant = "app" /\ load = "failed"
    /\ clicks = MaxClicks
    /\ chains = <<>>

====
